---- MODULE Spec2Model ----
(***************************************************************************)
(* Model of the site-generation pipeline of generator.py: the API client   *)
(* (call_api), the response normaliser (search_products,                   *)
(* get_product_details), the product extractor (extract_product_info) and  *)
(* the driver (generate_site, main).                                       *)
(*                                                                         *)
(* Python values are encoded as records of one shape per kind, because a   *)
(* TLA+ set holds values of one type:                                      *)
(*   - a price field is [t, n]: t = "empty" ('' / None / key absent),      *)
(*     "symbol" (a string such as "$" that is non-empty but strips to ''), *)
(*     "text" (a string float() rejects, such as "N/A"), "strnum" (a       *)
(*     string such as "$1,250" that strips to the integer literal n) or    *)
(*     "num" (the JSON number n);                                          *)
(*   - None as the result of extract_product_info is the record NoneInfo   *)
(*     (isNone = TRUE).                                                    *)
(***************************************************************************)
EXTENDS Integers, Sequences, FiniteSets, TLC

VARIABLES
    pc,              \* position of the control flow (main / generate_site / call_api)
    apiKey,          \* RAPIDAPI_KEY is set (environment)
    nichesOk,        \* niches.csv is readable (environment)
    templateOk,      \* template.html is readable (environment)
    niches,          \* the rows of niches.csv with a niche and a keyword (main: niches)
    i,               \* main: index of the niche the for loop is at
    success_count,   \* main
    failed_count,    \* main
    exitCode,        \* main's return value (-1 while running)
    sites,           \* disk: the slugs whose directory holds an index.html
    endpoint,        \* call_api: "search" or "product"
    retry_count,     \* call_api: the recursion's retry_count
    requests,        \* requests.get calls issued by the current call_api
    sleeps,          \* time.sleep(RETRY_DELAY) calls of the current call_api
    served,          \* what the endpoint did with the last request: [ok, payload]
    data,            \* search_products: data (what call_api returned)
    detail_data,     \* get_product_details: data (what call_api returned)
    products,        \* generate_site: the list search_products returned
    k,               \* generate_site: position of the for loop in products[:10]
    product,         \* generate_site: the raw product of the current iteration
    info,            \* generate_site: info of the current iteration
    product_details, \* generate_site: the accepted products
    pauses,          \* time.sleep(0.5) calls in the current niche
    writes,          \* index.html files written in the current niche
    results,         \* history: how each generate_site ended: "True", "False", "raised"
    error,           \* the exception that left the last generate_site ("" if none)
    visited,         \* history: the niche indices generate_site was called with
    apiCalled,       \* history: some requests.get was issued in this run
    log              \* history: what happened to each raw product of the niche

vars == <<pc, apiKey, nichesOk, templateOk, niches, i, success_count, failed_count,
          exitCode, sites, endpoint, retry_count, requests, sleeps, served, data,
          detail_data, products, k, product, info, product_details, pauses, writes,
          results, error, visited, apiCalled, log>>

-----------------------------------------------------------------------------
(* Configuration (generator.py lines 23-31) *)

MAX_RETRIES == 3
AFFILIATE_TAG == "scconnec0d-20"
\* products[:10] and limit=10 in generate_site
PRODUCT_LIMIT == 10

-----------------------------------------------------------------------------
(* Bounds of the model *)

\* price literals range over -MaxNegPrice .. MaxPrice (whole dollars)
MaxPrice == 52
MaxNegPrice == 4
\* the niche list holds at most MaxNiches rows
MaxNiches == 2
\* enumerated search results hold at most MaxLen raw products (plus one list
\* of PRODUCT_LIMIT + 1 products that exercises the cap)
MaxLen == 2

-----------------------------------------------------------------------------
(* Price values and their Python truthiness / conversions *)

Empty == [t |-> "empty", n |-> 0]
Symbol == [t |-> "symbol", n |-> 0]
Text == [t |-> "text", n |-> 0]
StrNum(n) == [t |-> "strnum", n |-> n]
Num(n) == [t |-> "num", n |-> n]

\* bool(v): '' and None and 0 are falsy, every other string or number truthy
Truthy(v) ==
    CASE v.t = "empty" -> FALSE
      [] v.t = "num" -> v.n # 0
      [] OTHER -> TRUE

\* a `or` b
Or(a, b) == IF Truthy(a) THEN a ELSE b

\* if isinstance(s, str): s = s.replace('$','').replace(',','').strip()
StripPrice(v) == IF v.t = "symbol" THEN Empty ELSE v

\* float(v) raises ValueError on a string that is no number
FloatRaises(v) == v.t = "text"

-----------------------------------------------------------------------------
(* IEEE-754 binary64 arithmetic on the values the discount needs.          *)
(* A positive double is a 53-bit significand times a power of two; the     *)
(* significand is held as five limbs <<top, l1, l2, l3, l4>> in base 2^13  *)
(* (top has weight 2^52), since TLC's integers are 32 bits wide.           *)

Limb == 2^13

Abs(x) == IF x < 0 THEN -x ELSE x
Max(x, y) == IF x > y THEN x ELSE y

\* the t with  b <= a * 2^t < 2b : the quotient a/b lies in [2^-t, 2^(1-t))
QuotientShift(a, b) ==
    CHOOSE t \in -14..14 :
        /\ b * 2^Max(0 - t, 0) <= a * 2^Max(t, 0)
        /\ a * 2^Max(t, 0) < 2 * b * 2^Max(0 - t, 0)

\* n further base-2^13 digits of r / b (r < b), and the final remainder
RECURSIVE DivLimbs(_, _, _)
DivLimbs(r, b, n) ==
    IF n = 0 THEN [limbs |-> <<>>, rem |-> r]
    ELSE LET rest == DivLimbs((r * Limb) % b, b, n - 1)
         IN  [limbs |-> <<(r * Limb) \div b>> \o rest.limbs, rem |-> rest.rem]

\* limbs + amount (amount added at the lowest limb, carries propagated)
RECURSIVE AddLow(_, _)
AddLow(limbs, amount) ==
    IF Len(limbs) = 1 THEN <<limbs[1] + amount>>
    ELSE LET n == Len(limbs)
             s == limbs[n] + amount
         IN  AddLow(SubSeq(limbs, 1, n - 1), s \div Limb) \o <<s % Limb>>

\* limbs * m for a small m
RECURSIVE MulSmall(_, _, _)
MulSmall(limbs, m, carry) ==
    IF Len(limbs) = 1 THEN <<limbs[1] * m + carry>>
    ELSE LET n == Len(limbs)
             s == limbs[n] * m + carry
         IN  MulSmall(SubSeq(limbs, 1, n - 1), m, s \div Limb) \o <<s % Limb>>

\* number of bits of x above bit 0 (x >= 1): floor(log2 x)
RECURSIVE Log2(_)
Log2(x) == IF x <= 1 THEN 0 ELSE 1 + Log2(x \div 2)

\* round-to-nearest-even of a / b to 53 bits: the limbs of the significand M
\* with a / b = M * 2^-(52 + QuotientShift(a, b))
DivSignificand(a, b) ==
    LET t == QuotientShift(a, b)
        aa == a * 2^Max(t, 0)
        bb == b * 2^Max(0 - t, 0)
        d == DivLimbs(aa - bb, bb, 4)
        m == <<1>> \o d.limbs
        up == \/ 2 * d.rem > bb
              \/ 2 * d.rem = bb /\ m[5] % 2 = 1
    IN  IF up THEN AddLow(m, 1) ELSE m

\* round-to-nearest-even of the exact product M * 100 to 53 bits; the result
\* keeps the scale of M (its low bits are zero)
MulRound(m, c) ==
    LET p == MulSmall(m, c, 0)
        s == Log2(p[1])
        low == p[5] % 2^s
        cleared == [p EXCEPT ![5] = p[5] - low]
        up == \/ 2 * low > 2^s
              \/ 2 * low = 2^s /\ (p[5] \div 2^s) % 2 = 1
    IN  IF s = 0 THEN p
        ELSE IF up THEN AddLow(cleared, 2^s) ELSE cleared

\* int(x) of the double with limbs r and scale 2^-(52 + t), x > 0
TruncLimbs(r, t) ==
    IF t >= 0 THEN r[1] \div 2^t
    ELSE r[1] * 2^(0 - t) + (r[2] \div 2^(13 + t))

\* int(((original_val - price_val) / original_val) * 100) in binary64;
\* original_val - price_val is exact for integers of this size
FloatPercent(price_val, original_val) ==
    LET a == Abs(original_val - price_val)
        b == Abs(original_val)
        r == MulRound(DivSignificand(a, b), 100)
        mag == TruncLimbs(r, QuotientShift(a, b))
    IN  IF original_val < 0 THEN 0 - mag ELSE mag

-----------------------------------------------------------------------------
(* Raw products and extract_product_info (generator.py lines 139-187) *)

\* a raw product: ismap = FALSE stands for a JSON value that is no mapping
\* (its .get raises AttributeError); an absent key reads as "" / Empty
RawProduct(m, t, pt, im, ph, a, pa, pr, ppr, op, pop) ==
    [ismap |-> m, title |-> t, product_title |-> pt, image |-> im,
     product_photo |-> ph, asin |-> a, product_asin |-> pa, price |-> pr,
     product_price |-> ppr, original_price |-> op, product_original_price |-> pop]

\* a `or` b on strings
OrStr(a, b) == IF a # "" THEN a ELSE b

NoneInfo ==
    [isNone |-> TRUE, title |-> "", image |-> "", asin |-> "", price |-> Empty,
     original_price |-> Empty, discount |-> 0, affiliate_link |-> <<>>]

\* lines 147-155: the price strings after the fallback and the stripping
PriceStr(p) == StripPrice(Or(p.price, p.product_price))
OriginalPriceStr(p) == StripPrice(Or(p.original_price, p.product_original_price))

\* lines 157-166
Discount(p) ==
    LET price_str == PriceStr(p)
        original_price_str == OriginalPriceStr(p)
    IN  IF Truthy(original_price_str) /\ Truthy(price_str)
        THEN IF FloatRaises(price_str) \/ FloatRaises(original_price_str)
             THEN 0                                  \* except ValueError: pass
             ELSE IF original_price_str.n > price_str.n
                  THEN IF original_price_str.n = 0
                       THEN 0                        \* except ZeroDivisionError: pass
                       ELSE FloatPercent(price_str.n, original_price_str.n)
                  ELSE 0
        ELSE 0

\* a gate that checks the title alone
MissingRequired_TitleOnly(title, image, asin) == title = ""

\* lines 179-182: the validation gate
MissingRequired(title, image, asin) == title = "" \/ image = "" \/ asin = ""

extract_product_info(p) ==
    IF ~p.ismap THEN NoneInfo                        \* except Exception: return None
    ELSE
    LET title == OrStr(p.title, p.product_title)
        image == OrStr(p.image, p.product_photo)
        asin == OrStr(p.asin, p.product_asin)
        price_str == PriceStr(p)
        original_price_str == OriginalPriceStr(p)
    IN  IF MissingRequired(title, image, asin) THEN NoneInfo
        ELSE [isNone |-> FALSE, title |-> title, image |-> image, asin |-> asin,
              price |-> IF Truthy(price_str) THEN price_str
                        ELSE [t |-> "unavailable", n |-> 0],
              original_price |-> IF Truthy(original_price_str)
                                 THEN original_price_str ELSE Empty,
              discount |-> Discount(p),
              affiliate_link |-> <<"https://www.amazon.com/dp/", asin, "?tag=", AFFILIATE_TAG>>]

-----------------------------------------------------------------------------
(* JSON values the API serves.  One record shape describes every response: *)
(*   kind         "none" (Python None: JSON null, and call_api's failure   *)
(*                sentinel), "scalar", "list" or "dict"                    *)
(*   truthy       bool(value)                                              *)
(*   items        the elements, when the value is a list                   *)
(*   dataKind     the value under key 'data' of a dict: "absent", "null",  *)
(*                "list", "emptymap" ({}) or "map"                         *)
(*   dataProducts the value under data['products'] (a ProductsValue)       *)
(*   dataProduct  data['data'] read as a product mapping                   *)
(*   top          the value under the dict's own key 'products'            *)
(*   self         the dict itself read as a product mapping                *)
(* A ProductsValue is [present, islist, items]: islist = FALSE is a value  *)
(* without a length (null, a number).                                      *)

BlankProduct == RawProduct(TRUE, "", "", "", "", "", "", Empty, Empty, Empty, Empty)
NonMapProduct == RawProduct(FALSE, "", "", "", "", "", "", Empty, Empty, Empty, Empty)

AbsentValue == [present |-> FALSE, islist |-> FALSE, items |-> <<>>]
NullValue == [present |-> TRUE, islist |-> FALSE, items |-> <<>>]
ListValue(l) == [present |-> TRUE, islist |-> TRUE, items |-> l]

NoneResponse ==
    [kind |-> "none", truthy |-> FALSE, items |-> <<>>, dataKind |-> "absent",
     dataProducts |-> AbsentValue, dataProduct |-> BlankProduct,
     top |-> AbsentValue, self |-> BlankProduct]
ScalarResponse(b) == [NoneResponse EXCEPT !.kind = "scalar", !.truthy = b]
ListResponse(l) == [NoneResponse EXCEPT !.kind = "list", !.truthy = (l # <<>>), !.items = l]
\* a dict with key 'data' of kind dk (unless "absent") and, if tv.present, key 'products'
SearchDict(dk, dv, tv) ==
    [NoneResponse EXCEPT !.kind = "dict", !.truthy = (dk # "absent" \/ tv.present),
                         !.dataKind = dk, !.dataProducts = dv, !.top = tv]
\* {'data': <product mapping>} and the flat product mapping
DetailEnvelope(dk, prod) ==
    [NoneResponse EXCEPT !.kind = "dict", !.truthy = TRUE, !.dataKind = dk,
                         !.dataProduct = prod]
DetailFlat(prod) ==
    [NoneResponse EXCEPT !.kind = "dict", !.truthy = (prod # BlankProduct), !.self = prod]

-----------------------------------------------------------------------------
(* search_products, lines 97-112, applied to what call_api returned.       *)
(* The result is [error, products]: error names the exception that leaves  *)
(* the function ("" when it returns).                                      *)

Returned(l) == [error |-> "", products |-> l]
Raised(e) == [error |-> e, products |-> <<>>]

\* line 111: len(products) needs a value with a length
Sized(v) == IF v.islist THEN Returned(v.items) ELSE Raised("TypeError")

\* the 'products' key of the mapping consulted whenever data['data'] holds none
search_products_Fallthrough(d) ==
    IF ~d.truthy THEN Returned(<<>>)
    ELSE IF d.kind = "dict"
         THEN IF d.dataKind \in {"map", "emptymap"} /\ d.dataProducts.present
              THEN Sized(d.dataProducts)
              ELSE IF d.top.present THEN Sized(d.top) ELSE Returned(<<>>)
         ELSE IF d.kind = "list" THEN Returned(d.items)
              ELSE Returned(<<>>)

search_products(d) ==
    IF ~d.truthy THEN Returned(<<>>)                               \* lines 97-99
    ELSE IF d.kind = "dict"
         THEN IF d.dataKind # "absent"                             \* line 104
              THEN IF d.dataKind \in {"map", "emptymap"}
                   THEN IF d.dataProducts.present                  \* .get('products', [])
                        THEN Sized(d.dataProducts)
                        ELSE Returned(<<>>)
                   ELSE Raised("AttributeError")                   \* no .get on the value
              ELSE IF d.top.present THEN Sized(d.top)              \* line 106
                   ELSE Returned(<<>>)
         ELSE IF d.kind = "list" THEN Returned(d.items)            \* line 108
              ELSE Returned(<<>>)

(* get_product_details, lines 126-136: [falsy, value] where falsy is       *)
(* `not full_details` and value the mapping handed to the extractor        *)
Details(f, v) == [falsy |-> f, value |-> v]

get_product_details(d) ==
    IF ~d.truthy THEN Details(TRUE, BlankProduct)                  \* lines 126-128
    ELSE IF d.kind = "dict"
         THEN CASE d.dataKind = "absent" -> Details(FALSE, d.self) \* return data
                [] d.dataKind = "map" -> Details(FALSE, d.dataProduct)
                [] d.dataKind = "list" -> Details(FALSE, NonMapProduct)
                [] OTHER -> Details(TRUE, BlankProduct)            \* data['data'] is None / {}
         ELSE Details(TRUE, BlankProduct)                          \* line 136

-----------------------------------------------------------------------------
(* The inputs of the model: niche rows, raw products, served responses *)

NicheNames == {"Coffee Makers", "Desk Lamps"}

\* python-slugify on the niche names of the model
slugify(niche) ==
    CASE niche = "Coffee Makers" -> "coffee-makers"
      [] niche = "Desk Lamps" -> "desk-lamps"
      [] OTHER -> "n-a"

RECURSIVE SeqsUpTo(_, _)
SeqsUpTo(S, n) ==
    IF n = 0 THEN {<<>>}
    ELSE LET shorter == SeqsUpTo(S, n - 1)
         IN  shorter \cup {Append(q, x) : q \in shorter, x \in S}

NicheLists == SeqsUpTo(NicheNames, MaxNiches)

\* a search hit with every required field (partly under the product_* names)
Complete ==
    RawProduct(TRUE, "Drip Brewer", "", "", "brewer.jpg", "", "B000000001",
               StrNum(21), Empty, StrNum(50), Empty)
\* a search hit without an image
NoImage ==
    RawProduct(TRUE, "Espresso Pot", "", "", "", "B000000002", "",
               Empty, Text, Empty, Empty)
\* a search hit without an ASIN
NoAsin ==
    RawProduct(TRUE, "Grinder", "", "grinder.jpg", "", "", "",
               Num(30), Empty, Empty, Empty)
\* the detail record of NoImage, complete / still without an image
DetailComplete ==
    RawProduct(TRUE, "", "Espresso Pot", "", "pot.jpg", "", "B000000002",
               Empty, StrNum(30), Empty, StrNum(40))
DetailNoImage ==
    RawProduct(TRUE, "", "Espresso Pot", "", "", "", "B000000002",
               Empty, StrNum(30), Empty, Empty)

SearchHits == {Complete, NoImage, NoAsin, NonMapProduct}

\* more hits than the driver takes
LongList == [j \in 1..(PRODUCT_LIMIT + 1) |-> IF j > PRODUCT_LIMIT THEN NoImage ELSE Complete]

ProductLists == SeqsUpTo(SearchHits, MaxLen) \cup {LongList}

SearchResponses ==
    {NoneResponse, ScalarResponse(TRUE), ScalarResponse(FALSE)}
    \cup {ListResponse(l) : l \in ProductLists}
    \cup {SearchDict("map", ListValue(l), AbsentValue) : l \in ProductLists}
    \cup {SearchDict("absent", AbsentValue, ListValue(l)) : l \in ProductLists}
    \cup {SearchDict("absent", AbsentValue, AbsentValue),
          SearchDict("absent", AbsentValue, NullValue),
          SearchDict("emptymap", AbsentValue, AbsentValue),
          SearchDict("emptymap", AbsentValue, ListValue(<<Complete>>)),
          SearchDict("map", AbsentValue, ListValue(<<Complete>>)),
          SearchDict("map", NullValue, AbsentValue),
          SearchDict("map", ListValue(<<NoImage>>), ListValue(<<Complete>>)),
          SearchDict("null", AbsentValue, AbsentValue),
          SearchDict("null", AbsentValue, ListValue(<<Complete>>)),
          SearchDict("list", AbsentValue, AbsentValue)}

DetailResponses ==
    {NoneResponse, ScalarResponse(TRUE), ListResponse(<<DetailComplete>>),
     DetailEnvelope("map", DetailComplete), DetailEnvelope("map", DetailNoImage),
     DetailEnvelope("null", BlankProduct), DetailEnvelope("emptymap", BlankProduct),
     DetailEnvelope("list", BlankProduct),
     DetailFlat(DetailComplete), DetailFlat(DetailNoImage), DetailFlat(BlankProduct)}

Responses(e) == IF e = "search" THEN SearchResponses ELSE DetailResponses

\* what one requests.get can do: raise a RequestException, or answer 2xx with JSON
Failure == [ok |-> FALSE, payload |-> NoneResponse]
Success(r) == [ok |-> TRUE, payload |-> r]
Served(e) == {Failure} \cup {Success(r) : r \in Responses(e)}

-----------------------------------------------------------------------------
(* The run *)

envVars == <<apiKey, nichesOk, templateOk, niches>>
callVars == <<endpoint, retry_count, requests, sleeps, served>>
nicheVars == <<products, k, product, info, product_details, pauses, writes, log>>


Init ==
    /\ pc = "main"
    /\ apiKey \in BOOLEAN
    /\ nichesOk \in BOOLEAN
    /\ templateOk \in BOOLEAN
    /\ niches \in (IF nichesOk THEN NicheLists ELSE {<<>>})
    /\ i = 0
    /\ success_count = 0
    /\ failed_count = 0
    /\ exitCode = -1
    /\ sites = {}
    /\ results = <<>>
    /\ error = ""
    /\ visited = <<>>
    /\ apiCalled = FALSE
    /\ endpoint = ""
    /\ retry_count = 0
    /\ requests = 0
    /\ sleeps = 0
    /\ served = Failure
    /\ data = NoneResponse
    /\ detail_data = NoneResponse
    /\ products = <<>>
    /\ k = 0
    /\ product = BlankProduct
    /\ info = NoneInfo
    /\ product_details = <<>>
    /\ pauses = 0
    /\ writes = 0
    /\ log = <<>>

\* the validation of the key left out
KeyMissing_Never(key) == FALSE

\* line 292: if not RAPIDAPI_KEY
KeyMissing(key) == ~key

\* lines 291-315: validation, read_niches, the counters
Main_Start ==
    /\ pc = "main"
    /\ IF KeyMissing(apiKey) \/ ~nichesOk \/ niches = <<>>
       THEN /\ pc' = "done"
            /\ exitCode' = 1
            /\ UNCHANGED <<i, success_count, failed_count>>
       ELSE /\ pc' = "loop"
            /\ i' = 1
            /\ success_count' = 0
            /\ failed_count' = 0
            /\ UNCHANGED exitCode
    /\ UNCHANGED <<envVars, sites, callVars, data, detail_data, nicheVars,
                   results, error, visited, apiCalled>>

\* call_api(e, params) is entered with retry_count = 0
BeginCall(e) ==
    /\ pc' = "call"
    /\ endpoint' = e
    /\ retry_count' = 0
    /\ requests' = 0
    /\ sleeps' = 0
    /\ served' = Failure

\* lines 317-319, 209-220, 87-95: the loop calls generate_site, which calls
\* search_products, which calls call_api('search', ...)
GenerateSite_Begin ==
    /\ pc = "loop"
    /\ i <= Len(niches)
    /\ visited' = Append(visited, i)
    /\ BeginCall("search")
    /\ data' = NoneResponse
    /\ detail_data' = NoneResponse
    /\ products' = <<>>
    /\ k' = 0
    /\ product' = BlankProduct
    /\ info' = NoneInfo
    /\ product_details' = <<>>
    /\ pauses' = 0
    /\ writes' = 0
    /\ log' = <<>>
    /\ error' = ""
    /\ UNCHANGED <<envVars, results, i, success_count, failed_count, exitCode, sites, apiCalled>>

\* the comparison off by one: a fourth retry
ShouldRetry_OffByOne(rc) == rc <= MAX_RETRIES

\* line 76: if retry_count < MAX_RETRIES
ShouldRetry(rc) == rc < MAX_RETRIES

\* lines 71-82: one requests.get of call_api and what follows it
CallApi_Request ==
    /\ pc = "call"
    /\ \E s \in Served(endpoint) :
        /\ served' = s
        /\ requests' = requests + 1
        /\ apiCalled' = TRUE
        /\ IF ~s.ok /\ ShouldRetry(retry_count)
           THEN /\ sleeps' = sleeps + 1                \* time.sleep(RETRY_DELAY)
                /\ retry_count' = retry_count + 1      \* call_api(..., retry_count + 1)
                /\ UNCHANGED <<pc, data, detail_data>>
           ELSE LET ret == IF s.ok THEN s.payload ELSE NoneResponse
                IN  /\ UNCHANGED <<sleeps, retry_count>>
                    /\ IF endpoint = "search"
                       THEN /\ data' = ret
                            /\ pc' = "search_ret"
                            /\ UNCHANGED detail_data
                       ELSE /\ detail_data' = ret
                            /\ pc' = "detail_ret"
                            /\ UNCHANGED data
    /\ UNCHANGED <<envVars, i, success_count, failed_count, exitCode, sites, endpoint,
                   nicheVars, results, error, visited>>

\* a handler that names one exception type only
Caught_OnlyFileNotFound(e) == e = "FileNotFoundError"

\* line 323: except Exception
Caught(e) == e \in {"AttributeError", "TypeError", "FileNotFoundError"}

\* lines 319-322: generate_site returned ok
NicheReturns(ok) ==
    /\ results' = Append(results, IF ok THEN "True" ELSE "False")
    /\ error' = ""
    /\ success_count' = IF ok THEN success_count + 1 ELSE success_count
    /\ failed_count' = IF ok THEN failed_count ELSE failed_count + 1
    /\ i' = i + 1
    /\ pc' = "loop"
    /\ UNCHANGED exitCode

\* lines 323-325: exception e left generate_site
NicheRaises(e) ==
    /\ error' = e
    /\ UNCHANGED success_count
    /\ IF Caught(e)
       THEN /\ results' = Append(results, "raised")
            /\ failed_count' = failed_count + 1
            /\ i' = i + 1
            /\ pc' = "loop"
            /\ UNCHANGED exitCode
       ELSE /\ pc' = "done"                            \* the traceback ends the process
            /\ exitCode' = 1
            /\ UNCHANGED <<results, failed_count, i>>

\* the frame of call_api is gone once its caller has taken the result
EndCall ==
    /\ endpoint' = ""
    /\ retry_count' = 0
    /\ requests' = 0
    /\ sleeps' = 0
    /\ served' = Failure

\* lines 97-112: search_products takes what call_api returned and computes
\* its own result (products, or the exception that leaves it)
SearchProducts_Return ==
    /\ pc = "search_ret"
    /\ LET res == search_products(data)
       IN  /\ products' = res.products
           /\ error' = res.error
    /\ EndCall
    /\ pc' = "searched"
    /\ UNCHANGED <<envVars, i, success_count, failed_count, exitCode, sites, data,
                   detail_data, k, product, info, product_details, pauses, writes,
                   log, results, visited, apiCalled>>

\* lines 220-228: generate_site takes the result of search_products
GenerateSite_Products ==
    /\ pc = "searched"
    /\ data' = NoneResponse
    /\ IF error # ""
       THEN /\ NicheRaises(error)
            /\ UNCHANGED k
       ELSE IF products = <<>>                         \* if not products: return False
       THEN /\ NicheReturns(FALSE)
            /\ UNCHANGED k
       ELSE /\ k' = 1
            /\ pc' = "product"
            /\ UNCHANGED <<i, success_count, failed_count, exitCode, results, error>>
    /\ UNCHANGED <<envVars, sites, callVars, detail_data, products, product, info,
                   product_details, pauses, writes, log, visited, apiCalled>>

Min(x, y) == IF x < y THEN x ELSE y

\* products[:10]
Limited(l) == SubSeq(l, 1, Min(Len(l), PRODUCT_LIMIT))

\* the supplementary fetch never asked for
NeedsDetails_Never(inf) == FALSE

\* line 238: if not info or not info.get('title') or not info.get('image')
NeedsDetails(inf) == inf.isNone \/ inf.title = "" \/ inf.image = ""

\* a line of the log: the outcome ("accepted", "skipped", "no_asin"), whether
\* get_product_details was called and what it gave ("", "none", "found")
Entry(what, fetched, inf) ==
    [outcome |-> what, details |-> fetched, info |-> inf]

\* the pause placed inside the `if info:` branch
FinishProduct_PauseOnAccept(inf, fetched) ==
    /\ info' = inf
    /\ product_details' = IF ~inf.isNone THEN Append(product_details, inf)
                          ELSE product_details
    /\ log' = Append(log, Entry(IF ~inf.isNone THEN "accepted" ELSE "skipped",
                                fetched, inf))
    /\ pauses' = IF ~inf.isNone THEN pauses + 1 ELSE pauses
    /\ k' = k + 1

\* lines 244-251: append or skip, then the rate-limit pause
FinishProduct(inf, fetched) ==
    /\ info' = inf
    /\ product_details' = IF ~inf.isNone THEN Append(product_details, inf)
                          ELSE product_details
    /\ log' = Append(log, Entry(IF ~inf.isNone THEN "accepted" ELSE "skipped",
                                fetched, inf))
    /\ pauses' = pauses + 1                            \* time.sleep(0.5)
    /\ k' = k + 1

\* lines 228-251: one iteration of the loop over products[:10], up to its
\* end or up to the call of get_product_details
Product_Step ==
    /\ pc = "product"
    /\ k <= Len(Limited(products))
    /\ LET p == products[k]
           asin == OrStr(p.asin, p.product_asin)
           inf == extract_product_info(p)
       IN  /\ product' = p
           /\ IF ~p.ismap                              \* product.get raises
              THEN /\ NicheRaises("AttributeError")
                   /\ UNCHANGED <<callVars, k, info, product_details, pauses, log>>
              ELSE IF asin = ""                        \* lines 230-232: continue
              THEN /\ k' = k + 1
                   /\ log' = Append(log, Entry("no_asin", "", NoneInfo))
                   /\ UNCHANGED <<pc, i, success_count, failed_count, exitCode,
                                  results, error, callVars, info, product_details,
                                  pauses>>
              ELSE IF NeedsDetails(inf)                \* lines 238-240
              THEN /\ info' = inf
                   /\ BeginCall("product")
                   /\ UNCHANGED <<i, success_count, failed_count, exitCode, results,
                                  error, k, product_details, pauses, log>>
              ELSE /\ FinishProduct(inf, "")
                   /\ UNCHANGED <<pc, i, success_count, failed_count, exitCode,
                                  results, error, callVars>>
    /\ UNCHANGED <<envVars, sites, data, detail_data, products, writes, visited,
                   apiCalled>>

\* lines 126-136 and 241-251: get_product_details returns to generate_site
Detail_Return ==
    /\ pc = "detail_ret"
    /\ LET full_details == get_product_details(detail_data)
           inf == IF ~full_details.falsy
                  THEN extract_product_info(full_details.value)
                  ELSE info
       IN  FinishProduct(inf, IF full_details.falsy THEN "none" ELSE "found")
    /\ EndCall
    /\ detail_data' = NoneResponse
    /\ pc' = "product"
    /\ UNCHANGED <<envVars, i, success_count, failed_count, exitCode, sites, data,
                   products, product, writes, results, error, visited, apiCalled>>

\* the check for an empty product_details left out
NoValidProducts_Never(pd) == FALSE

\* line 253: if not product_details
NoValidProducts(pd) == pd = <<>>

\* lines 253-283: after the loop; load_template raises FileNotFoundError
GenerateSite_Finish ==
    /\ pc = "product"
    /\ k > Len(Limited(products))
    /\ IF NoValidProducts(product_details)
       THEN /\ NicheReturns(FALSE)
            /\ UNCHANGED <<sites, writes>>
       ELSE IF ~templateOk
       THEN /\ NicheRaises("FileNotFoundError")
            /\ UNCHANGED <<sites, writes>>
       ELSE /\ sites' = sites \cup {slugify(niches[i])}
            /\ writes' = writes + 1
            /\ NicheReturns(TRUE)
    /\ UNCHANGED <<envVars, callVars, data, detail_data, products, k, product, info,
                   product_details, pauses, log, visited, apiCalled>>

\* the summary always followed by return 0
ExitStatus_AlwaysZero(sc) == 0

\* lines 336-340
ExitStatus(sc) == IF sc = 0 THEN 1 ELSE 0

\* lines 327-340: the loop is over
Main_Finish ==
    /\ pc = "loop"
    /\ i > Len(niches)
    /\ pc' = "done"
    /\ exitCode' = ExitStatus(success_count)
    /\ UNCHANGED <<envVars, i, success_count, failed_count, sites, callVars, data,
                   detail_data, nicheVars, results, error, visited, apiCalled>>

Next ==
    \/ Main_Start
    \/ GenerateSite_Begin
    \/ CallApi_Request
    \/ SearchProducts_Return
    \/ GenerateSite_Products
    \/ Product_Step
    \/ Detail_Return
    \/ GenerateSite_Finish
    \/ Main_Finish

Spec == Init /\ [][Next]_vars

-----------------------------------------------------------------------------
(* extract_product_info on its own: the raw product is drawn from a wide   *)
(* set and the extractor applied to it once.                               *)

PriceValues ==
    {Empty, Symbol, Text}
    \cup {StrNum(n) : n \in (0 - MaxNegPrice)..MaxPrice}
    \cup {Num(n) : n \in (0 - MaxNegPrice)..MaxPrice}

\* every combination of present / absent identity fields
IdentityInputs ==
    {RawProduct(m, t, pt, im, ph, a, pa, StrNum(21), Empty, StrNum(50), Empty) :
        m \in BOOLEAN, t \in {"", "Drip Brewer"}, pt \in {"", "Brewer"},
        im \in {"", "brewer.jpg"}, ph \in {"", "photo.jpg"},
        a \in {"", "B000000001"}, pa \in {"", "B000000009"}}

\* every pair of price and original price
PriceInputs ==
    {RawProduct(TRUE, "Drip Brewer", "", "brewer.jpg", "", "B000000001", "",
                pr, Empty, op, Empty) : pr \in PriceValues, op \in PriceValues}

\* prices under the product_* names
FallbackInputs ==
    {RawProduct(TRUE, "Drip Brewer", "", "brewer.jpg", "", "B000000001", "",
                pr, ppr, op, pop) :
        pr \in {Empty, Symbol, Num(0)}, ppr \in {Empty, Text, StrNum(20), Num(20)},
        op \in {Empty, Num(0)}, pop \in {Empty, Symbol, StrNum(40), Num(40)}}

ExtractInputs == IdentityInputs \cup PriceInputs \cup FallbackInputs

InitExtract ==
    /\ pc = "extract"
    /\ product \in ExtractInputs
    /\ info = NoneInfo
    /\ apiKey = TRUE
    /\ nichesOk = TRUE
    /\ templateOk = TRUE
    /\ niches = <<>>
    /\ i = 0
    /\ success_count = 0
    /\ failed_count = 0
    /\ exitCode = -1
    /\ sites = {}
    /\ results = <<>>
    /\ error = ""
    /\ visited = <<>>
    /\ apiCalled = FALSE
    /\ endpoint = ""
    /\ retry_count = 0
    /\ requests = 0
    /\ sleeps = 0
    /\ served = Failure
    /\ data = NoneResponse
    /\ detail_data = NoneResponse
    /\ products = <<>>
    /\ k = 0
    /\ product_details = <<>>
    /\ pauses = 0
    /\ writes = 0
    /\ log = <<>>

\* info = extract_product_info(product)
Extract_Apply ==
    /\ pc = "extract"
    /\ info' = extract_product_info(product)
    /\ pc' = "extracted"
    /\ UNCHANGED <<envVars, i, success_count, failed_count, exitCode, sites, callVars,
                   data, detail_data, products, k, product, product_details, pauses,
                   writes, log, results, error, visited, apiCalled>>

NextExtract == Extract_Apply

SpecExtract == InitExtract /\ [][NextExtract]_vars

-----------------------------------------------------------------------------
(* Claims *)

\* floor(n / d) for d # 0
FloorDiv(n, d) == IF d < 0 THEN (0 - n) \div (0 - d) ELSE n \div d

\* the value a reader of the record takes as its price: the first of the two
\* field names that is there
FirstPresent(a, b) == IF a.t # "empty" THEN a ELSE b
ParsesAsNumber(v) == v.t \in {"strnum", "num"}

ClaimedDiscount(p) ==
    LET price == FirstPresent(p.price, p.product_price)
        original == FirstPresent(p.original_price, p.product_original_price)
    IN  IF ParsesAsNumber(price) /\ ParsesAsNumber(original) /\ original.n > price.n
           /\ original.n # 0
        THEN FloorDiv((original.n - price.n) * 100, original.n)
        ELSE 0

\* C8 (as stated): for every raw product the extractor accepts, discount is
\* floor((original - price) / original * 100) when both prices parse as numbers
\* and original > price, 0 otherwise, and it is never negative.
C8_DiscountIsFloor ==
    (pc = "extracted" /\ ~info.isNone)
        => /\ info.discount = ClaimedDiscount(product)
           /\ info.discount >= 0


-----------------------------------------------------------------------------
(* Claims about the run (checked under Spec) *)

Last(q) == q[Len(q)]
Count(q, x) == Cardinality({j \in DOMAIN q : q[j] = x})

\* the call of call_api has returned and its caller has not yet taken the result
Returned_Call == pc \in {"search_ret", "detail_ret"}
CallResult == IF endpoint = "search" THEN data ELSE detail_data

\* C1: call_api returns the payload of the first request that succeeds, which
\* is at the latest the one after 3 failures; when every request fails it
\* returns None after exactly 3 retries, with one delay before each retry, and
\* no call issues more than 1 + 3 requests.
C1_CallApiRetries ==
    /\ requests <= 4
    /\ pc = "call" => (sleeps = requests /\ retry_count = requests /\ requests <= 3)
    /\ Returned_Call =>
          /\ sleeps = requests - 1
          /\ retry_count = sleeps
          /\ IF served.ok
             THEN CallResult = served.payload
             ELSE CallResult = NoneResponse /\ requests = 4 /\ sleeps = 3

\* C1: reached - a call whose every request failed has returned
C1_Witness ==
    pc = "detail_ret" /\ ~served.ok /\ sleeps = 3 /\ detail_data = NoneResponse

\* the list a 'products' value stands for under the policy as stated
ClaimedItems(v) == IF v.present /\ v.islist THEN v.items ELSE <<>>

\* C2 (as stated): search_products returns data['data']['products'] when the
\* mapping has 'data' with 'products' inside, else the mapping's own 'products',
\* else the response itself when it is a sequence, else the empty list; no
\* response shape raises.
C2_OrderedPolicy ==
    pc = "searched" =>
        /\ error = ""
        /\ products =
              IF data.kind = "dict" /\ data.dataKind = "map" /\ data.dataProducts.present
              THEN ClaimedItems(data.dataProducts)
              ELSE IF data.kind = "dict" /\ data.top.present
              THEN ClaimedItems(data.top)
              ELSE IF data.kind = "list" THEN data.items
              ELSE <<>>

\* what the code chooses, by the shape of the response: "list" l, "nolen" (a
\* value without a length), "nomap" (data['data'] has no .get)
Chosen(d) ==
    CASE d.kind = "list" -> [is |-> "list", items |-> d.items]
      [] d.kind = "dict" /\ d.dataKind \in {"null", "list"} -> [is |-> "nomap", items |-> <<>>]
      [] d.kind = "dict" /\ d.dataKind \in {"map", "emptymap"} ->
            IF ~d.dataProducts.present THEN [is |-> "list", items |-> <<>>]
            ELSE IF d.dataProducts.islist
                 THEN [is |-> "list", items |-> d.dataProducts.items]
                 ELSE [is |-> "nolen", items |-> <<>>]
      [] d.kind = "dict" /\ d.dataKind = "absent" /\ d.top.present ->
            IF d.top.islist THEN [is |-> "list", items |-> d.top.items]
            ELSE [is |-> "nolen", items |-> <<>>]
      [] OTHER -> [is |-> "list", items |-> <<>>]

\* C2 (amended): a mapping with key 'data' yields the 'products' entry of that
\* value, or the empty list when it has none (the mapping's own 'products' is
\* then not consulted), and AttributeError when the value is no mapping; a
\* mapping without 'data' yields its own 'products'; a sequence yields itself;
\* anything else the empty list; a chosen value without a length raises TypeError.
C2_CodePolicy ==
    pc = "searched" =>
        LET c == Chosen(data)
        IN  /\ c.is = "list" => (error = "" /\ products = c.items)
            /\ c.is = "nomap" => (error = "AttributeError" /\ products = <<>>)
            /\ c.is = "nolen" => (error = "TypeError" /\ products = <<>>)

\* C2: reached - 'data' without 'products' beside a top-level 'products'
C2_Witness ==
    /\ pc = "searched"
    /\ data.kind = "dict"
    /\ data.dataKind \in {"map", "emptymap"}
    /\ ~data.dataProducts.present
    /\ data.top.present /\ data.top.items # <<>>
    /\ products = <<>>
    /\ error = ""

HasAsin(p) == p.asin # "" \/ p.product_asin # ""

\* C3 (as stated): the number of rate-limit pauses in a niche equals the number
\* of raw products processed, whatever their outcome.
C3_PauseEveryProduct == pauses = Len(log)

\* C3 (amended): the driver pauses once after each raw product that has an
\* ASIN, accepted or skipped; a product without an ASIN is skipped without a
\* pause; the pauses of a niche number the processed products that have an ASIN.
C3_PauseWhenAsin ==
    /\ pauses = Cardinality({j \in DOMAIN log : log[j].outcome # "no_asin"})
    /\ \A j \in DOMAIN log : (log[j].outcome = "no_asin") <=> ~HasAsin(products[j])
    /\ Len(log) <= 10
    /\ pc = "product" => Len(log) = k - 1

\* C3: reached - a product without an ASIN and a skipped product in one niche
C3_Witness ==
    /\ pauses = 1
    /\ \E j \in DOMAIN log : log[j].outcome = "no_asin"
    /\ \E j \in DOMAIN log : log[j].outcome = "skipped"

\* C4 (as stated): with the secret missing, the niche list unreadable or the
\* template unreadable, no API call is issued and the run ends in failure.
C4_FatalBeforeProcessing ==
    (~apiKey \/ ~nichesOk \/ ~templateOk) =>
        /\ ~apiCalled
        /\ pc = "done" => exitCode = 1

\* C4 (amended): a missing secret or an unreadable niche list ends the run in
\* failure before any niche is processed or any API call is issued; an
\* unreadable template is met only when a niche is rendered, after its API
\* calls: no site is written, every niche fails and the run ends in failure.
C4_FatalConditions ==
    /\ (~apiKey \/ ~nichesOk) =>
          /\ ~apiCalled
          /\ visited = <<>>
          /\ pc \in {"main", "done"}
          /\ pc = "done" => exitCode = 1
    /\ ~templateOk =>
          /\ sites = {}
          /\ success_count = 0
          /\ pc = "done" => exitCode = 1

\* C4: reached - the template is unreadable and API calls were issued
C4_Witness ==
    /\ ~templateOk
    /\ apiCalled
    /\ pc = "done"
    /\ error = "FileNotFoundError"

\* generate_site has ended for the niche before position i
NicheEnded == pc \in {"loop", "done"} /\ results # <<>> /\ Len(results) = i - 1

\* C5 (as stated): a niche with 0 accepted products writes nothing and is
\* counted failed; a niche with at least one accepted product writes exactly
\* one index.html under its slug and is counted succeeded.
C5_WriteIffAccepted ==
    NicheEnded =>
        IF product_details = <<>>
        THEN writes = 0 /\ Last(results) # "True"
        ELSE writes = 1 /\ Last(results) = "True" /\ slugify(niches[i - 1]) \in sites

\* C5 (amended): generate_site writes exactly one index.html under the niche's
\* slug, and the niche is counted succeeded, if and only if the loop over the
\* products ends with at least one accepted product and the template is read;
\* otherwise (no accepted product, an exception in the loop, the template
\* unreadable) nothing is written and the niche is counted failed.
C5_WriteIffRendered ==
    /\ writes \in {0, 1}
    /\ success_count = Count(results, "True")
    /\ failed_count = Len(results) - Count(results, "True")
    /\ sites = {slugify(niches[j]) : j \in {n \in DOMAIN results : results[n] = "True"}}
    /\ NicheEnded =>
          /\ writes = 1 <=> Last(results) = "True"
          /\ Last(results) = "True" <=>
                /\ product_details # <<>>
                /\ templateOk
                /\ error = ""
                /\ k > Len(Limited(products))
          /\ product_details = <<>> => writes = 0

\* C5: reached - accepted products, and nothing written
C5_Witness ==
    /\ NicheEnded
    /\ product_details # <<>>
    /\ writes = 0
    /\ Last(results) = "raised"
    /\ error = "AttributeError"

\* C6: an exception that leaves generate_site is counted as a failure and the
\* loop goes on: the niches are processed once each in list order, and when
\* the loop has ended success_count + failed_count is the number of niches.
C6_EveryNicheCounted ==
    /\ visited = [j \in 1..Len(visited) |-> j]
    /\ Len(visited) <= Len(niches)
    /\ success_count + failed_count = Len(results)
    /\ failed_count >= Count(results, "raised")
    /\ error # "" => (results # <<>> /\ Last(results) = "raised") \/ pc = "searched"
    /\ (pc = "done" /\ apiKey /\ nichesOk /\ niches # <<>>) =>
          /\ Len(visited) = Len(niches)
          /\ success_count + failed_count = Len(niches)

\* C6: reached - the first niche raised and the run went on to the end
C6_Witness ==
    /\ pc = "done"
    /\ Len(niches) = 2
    /\ Len(results) = 2
    /\ results[1] = "raised"

\* C7: the run returns 0 exactly when a niche wrote a site; a missing secret,
\* an empty or unreadable niche list and a run without a written site return
\* 1; a site once written stays on disk.
C7_ExitStatus ==
    /\ [](pc = "done" =>
            /\ exitCode \in {0, 1}
            /\ exitCode = 0 <=> sites # {}
            /\ (~apiKey \/ ~nichesOk \/ niches = <<>>) => exitCode = 1)
    /\ [](pc # "done" => exitCode = -1)
    /\ [][sites \subseteq sites']_vars

\* C7: reached - a site was written, a later niche failed, the run returns 0
C7_Witness ==
    /\ pc = "done"
    /\ exitCode = 0
    /\ Len(results) = 2
    /\ results[1] = "True"
    /\ results[2] # "True"
    /\ sites # {}

\* C9 (as stated): get_product_details is called exactly for the raw products
\* whose direct extraction yields null.
C9_DetailIffDirectNull ==
    \A j \in DOMAIN log :
        (log[j].details # "") <=> extract_product_info(products[j]).isNone

\* C9 (amended): a raw product without an ASIN is skipped with no extraction
\* and no detail call; for a raw product with an ASIN the detail call is issued
\* exactly when direct extraction yields null, and the product is then
\* accepted if and only if the detail fetch gave a record whose re-extraction
\* is non-null; a product whose direct extraction succeeds is accepted as
\* extracted, with no detail call.
C9_DetailWhenAsinAndNull ==
    /\ \A j \in DOMAIN log :
          LET direct == extract_product_info(products[j])
              e == log[j]
          IN  IF ~HasAsin(products[j])
              THEN e.outcome = "no_asin" /\ e.details = ""
              ELSE /\ (e.details # "") <=> direct.isNone
                   /\ e.details = "" => (e.outcome = "accepted" /\ e.info = direct)
                   /\ e.details = "none" => e.outcome = "skipped"
                   /\ e.details # "" => ((e.outcome = "accepted") <=> ~e.info.isNone)
                   /\ e.outcome = "skipped" => e.info.isNone
    /\ (pc \in {"call", "detail_ret"} /\ endpoint = "product") =>
          /\ HasAsin(product)
          /\ info.isNone
          /\ info = extract_product_info(product)

\* C9: reached - a product accepted from its detail record
C9_Witness ==
    \E j \in DOMAIN log :
        /\ log[j].details = "found"
        /\ log[j].outcome = "accepted"
        /\ extract_product_info(products[j]).isNone

AcceptedInfos(l) ==
    LET kept == SelectSeq(l, LAMBDA e : e.outcome = "accepted")
    IN  [j \in DOMAIN kept |-> kept[j].info]

\* C10: every accepted product has a non-empty title, image and asin; a raw
\* product with one of them empty under both field names is not accepted as
\* extracted; at most 10 products are accepted, in the order of the API result
\* without the skipped ones.
C10_AcceptedComplete ==
    /\ \A j \in DOMAIN product_details :
          /\ ~product_details[j].isNone
          /\ product_details[j].title # ""
          /\ product_details[j].image # ""
          /\ product_details[j].asin # ""
    /\ Len(product_details) <= 10
    /\ product_details = AcceptedInfos(log)
    /\ \A j \in DOMAIN log :
          LET p == products[j]
          IN  (p.title = "" /\ p.product_title = "")
                 \/ (p.image = "" /\ p.product_photo = "")
                 \/ (p.asin = "" /\ p.product_asin = "")
              => /\ extract_product_info(p).isNone
                 /\ log[j].details = "" => log[j].outcome # "accepted"

\* C10: reached - the cap: ten products accepted out of eleven hits
C10_Witness ==
    /\ pc = "loop"
    /\ Len(products) = 11
    /\ Len(product_details) = 10
    /\ Len(log) = 10

====
